---- MODULE Spec2Model ----
(***************************************************************************)
(* A model of PathFinder (grid rasterisation by ray casting + A* search)   *)
(* and of the WorkSpace watch processes of the editor.                     *)
(*                                                                         *)
(* Numbers are exact rationals <<numerator, denominator>> (denominator     *)
(* >= 1, lowest terms); <<0, 0>> is NaN.  Optional values (null /          *)
(* undefined or a value) are sequences of length 0 or 1.                   *)
(***************************************************************************)
EXTENDS Integers, Sequences, FiniteSets, TLC

VARIABLES width, height, buffer, points, graph, boundingInfo, ret,
          WatchProjectProgram, WatchTypescriptProgram, processes, pending

\* the PathFinder object and the record of the last call on it
pathFinderVars == <<width, height, buffer, points, graph, boundingInfo, ret>>

\* the static fields of WorkSpace, the processes it has spawned, and its
\* calls suspended at an await
workSpaceVars == <<WatchProjectProgram, WatchTypescriptProgram, processes, pending>>

vars == <<width, height, buffer, points, graph, boundingInfo, ret,
          WatchProjectProgram, WatchTypescriptProgram, processes, pending>>

---------------------------------------------------------------------------
(* Bounds of the model *)

\* largest grid size passed to the constructor or to rebuildBuffers
MaxSize == 3

\* most watch processes spawned, calls still suspended counted in
MaxProcesses == 3

---------------------------------------------------------------------------
(* Numbers *)

Abs(n) == IF n < 0 THEN 0 - n ELSE n

RECURSIVE Gcd(_, _)
Gcd(a, b) == IF b = 0 THEN a ELSE Gcd(b, a % b)

NaN == <<0, 0>>

IsNaN(a) == a[2] = 0

Norm(n, d) ==
    IF d = 0 THEN NaN
    ELSE LET g == Gcd(Abs(n), Abs(d))
             s == IF d < 0 THEN 0 - 1 ELSE 1
         IN  <<(s * n) \div g, (s * d) \div g>>

I(n) == <<n, 1>>

Add(a, b) == IF IsNaN(a) \/ IsNaN(b) THEN NaN
             ELSE Norm(a[1] * b[2] + b[1] * a[2], a[2] * b[2])

Sub(a, b) == IF IsNaN(a) \/ IsNaN(b) THEN NaN
             ELSE Norm(a[1] * b[2] - b[1] * a[2], a[2] * b[2])

Mul(a, b) == IF IsNaN(a) \/ IsNaN(b) THEN NaN
             ELSE Norm(a[1] * b[1], a[2] * b[2])

\* a / n for an integer n; the only division by zero the program performs is
\* 0 / 0 (the average of no centres), which is NaN
DivInt(a, n) == IF IsNaN(a) \/ n = 0 THEN NaN ELSE Norm(a[1], a[2] * n)

\* JavaScript's <= and ===: false as soon as one side is NaN
Le(a, b) == ~IsNaN(a) /\ ~IsNaN(b) /\ a[1] * b[2] <= b[1] * a[2]
StrictEq(a, b) == ~IsNaN(a) /\ ~IsNaN(b) /\ a = b

MathMin(a, b) == IF a < b THEN a ELSE b
MathMax(a, b) == IF a > b THEN a ELSE b

\* size >> 0 : ToInt32 of a number, which drops the fraction (towards zero)
\* and turns NaN into 0; the numbers of the model stay far below 2^31
ToInt32(a) ==
    IF IsNaN(a) THEN 0
    ELSE IF a[1] >= 0 THEN a[1] \div a[2]
    ELSE 0 - ((0 - a[1]) \div a[2])

\* (a / b) >> 0 for integers a >= 0 and any integer b: truncation towards
\* zero; Infinity and NaN (b = 0) convert to 0
DivTrunc(a, b) ==
    IF b = 0 THEN 0
    ELSE IF b > 0 THEN a \div b
    ELSE 0 - (a \div (0 - b))

\* (a % b) >> 0 for integers a >= 0: the sign follows the dividend; NaN
\* (b = 0) converts to 0
ModTrunc(a, b) == IF b = 0 THEN 0 ELSE a % Abs(b)

Vector3(x, y, z) == [x |-> x, y |-> y, z |-> z]

---------------------------------------------------------------------------
(* Optional values *)

Null == <<>>
Some(v) == <<v>>
Present(o) == o # <<>>
Get(o) == o[1]

\* a || d on an optional number: undefined, 0 and NaN are falsy
OrDefault(o, d) == IF o = Null \/ o[1] = 0 THEN d ELSE o[1]

---------------------------------------------------------------------------
(* Surfaces: a surface is a flat horizontal rectangle                      *)
(* [minX, maxX, minZ, maxZ, y] with integer world coordinates.  Its world  *)
(* bounding box has minimum (minX, y, minZ) and maximum (maxX, y, maxZ).   *)

Rect(x0, x1, z0, z1, h) == [minX |-> x0, maxX |-> x1, minZ |-> z0, maxZ |-> z1, y |-> h]

CenterWorld(cm) ==
    Vector3(DivInt(I(cm.minX + cm.maxX), 2), I(cm.y), DivInt(I(cm.minZ + cm.maxZ), 2))

\* cells of a freshly allocated row: new Array(n) holds no value yet
Empty == -1

\* new Array(n) throws a RangeError for a negative length
ArrayThrows(n) == n < 0

NewBuffer(w, h) == [i \in 0 .. (w - 1) |-> [j \in 0 .. (h - 1) |-> Empty]]

\* the initial bounding box of fill: BoundingInfo(Vector3.Zero(), Vector3.Zero())
ZeroCorner == 0

\* the forEach of fill over one coordinate of the surfaces' boxes, from the
\* value the combined box starts with: Math.min / Math.max of the running
\* value and the surface's
RECURSIVE FoldMin(_, _)
FoldMin(values, acc) ==
    IF values = <<>> THEN acc
    ELSE FoldMin(Tail(values), MathMin(acc, Head(values)))

RECURSIVE FoldMax(_, _)
FoldMax(values, acc) ==
    IF values = <<>> THEN acc
    ELSE FoldMax(Tail(values), MathMax(acc, Head(values)))

RECURSIVE SumCenters(_)
SumCenters(castMeshes) ==
    IF castMeshes = <<>> THEN Vector3(I(0), I(0), I(0))
    ELSE LET c == CenterWorld(Head(castMeshes))
             r == SumCenters(Tail(castMeshes))
         IN  Vector3(Add(c.x, r.x), Add(c.y, r.y), Add(c.z, r.z))

\* the combined bounds b of fill and its averaged centre
CombinedBounds(castMeshes) ==
    LET sum == SumCenters(castMeshes)
        n == Len(castMeshes)
        minXs == [k \in 1 .. n |-> castMeshes[k].minX]
        maxXs == [k \in 1 .. n |-> castMeshes[k].maxX]
        minZs == [k \in 1 .. n |-> castMeshes[k].minZ]
        maxZs == [k \in 1 .. n |-> castMeshes[k].maxZ]
        ys == [k \in 1 .. n |-> castMeshes[k].y]
    IN  [minimum |-> Vector3(FoldMin(minXs, ZeroCorner), FoldMin(ys, ZeroCorner),
                             FoldMin(minZs, ZeroCorner)),
         maximum |-> Vector3(FoldMax(maxXs, ZeroCorner), FoldMax(ys, ZeroCorner),
                             FoldMax(maxZs, ZeroCorner)),
         centerWorld |-> Vector3(DivInt(sum.x, n), DivInt(sum.y, n), DivInt(sum.z, n))]

Xd(b) == Abs(b.maximum.x) + Abs(b.minimum.x)
Yd(b) == Abs(b.maximum.z) + Abs(b.minimum.z)

\* the default ray height offset and the default ray length
DefaultRayOffset == 10
DefaultRayLength == 100

RayHeight(b, rayHeight) == OrDefault(rayHeight, b.maximum.y + DefaultRayOffset)
RayLength(rayLength) == OrDefault(rayLength, DefaultRayLength)

\* the origin of the ray of cell (x, y):
\* s.add(new Vector3(rx, rayHeight || (b.maximum.y + 10), ry))
RayOrigin(b, x, y, w, h, rayHeight) ==
    LET sx == Sub(b.centerWorld.x, DivInt(I(Xd(b)), 2))
        sy == b.centerWorld.y
        sz == Sub(b.centerWorld.z, DivInt(I(Yd(b)), 2))
        rx == DivInt(I(x * Xd(b)), w)
        ry == DivInt(I(y * Yd(b)), h)
    IN  Vector3(Add(sx, rx), Add(sy, I(RayHeight(b, rayHeight))), Add(sz, ry))

\* Ray.intersectsMesh for a ray pointing straight down: the surface is hit
\* when the origin is above its rectangle, at a distance within the ray's
\* length; a rectangle of no area has only degenerate triangles and is never
\* hit
IntersectsMesh(cm, o, len) ==
    /\ cm.minX < cm.maxX /\ cm.minZ < cm.maxZ
    /\ Le(I(cm.minX), o.x) /\ Le(o.x, I(cm.maxX))
    /\ Le(I(cm.minZ), o.z) /\ Le(o.z, I(cm.maxZ))
    /\ Le(I(cm.y), o.y) /\ Le(Sub(o.y, I(cm.y)), I(len))

\* r.intersectsMeshes(castMeshes, false).find(p => p.hit): the hits come
\* sorted by distance, the first one is the nearest; Null when nothing is hit
PickedPoint(castMeshes, o, len) ==
    LET hits == {k \in 1 .. Len(castMeshes) : IntersectsMesh(castMeshes[k], o, len)}
    IN  IF hits = {} THEN Null
        ELSE LET k == CHOOSE i \in hits :
                        \A j \in hits : \/ castMeshes[i].y > castMeshes[j].y
                                        \/ (castMeshes[i].y = castMeshes[j].y /\ i <= j)
             IN  Some(Vector3(o.x, I(castMeshes[k].y), o.z))

\* the hit of the ray cast for cell (x, y)
CastCell(castMeshes, b, x, y, w, h, rayHeight, rayLength) ==
    PickedPoint(castMeshes, RayOrigin(b, x, y, w, h, rayHeight), RayLength(rayLength))

\* the position at which the cast of cell (x, y) is pushed onto points: the
\* loops run x outermost, y innermost
PushIndex(x, y, h) == x * h + y

\* the index fill reads when it attaches a point to graph node (x, y)
AttachCoord(x, y, w) == y * w + x

\* points[i] of a JavaScript array: undefined out of range
PointAt(pts, i) == IF i >= 0 /\ i < Len(pts) THEN pts[i + 1] ELSE Null

FillPoints(castMeshes, b, w, h, rayHeight, rayLength) ==
    [i \in 1 .. (w * h) |->
        CastCell(castMeshes, b, (i - 1) \div h, (i - 1) % h, w, h, rayHeight, rayLength)]

FillBuffer(pts, w, h) ==
    [x \in 0 .. (w - 1) |-> [y \in 0 .. (h - 1) |->
        IF Present(pts[PushIndex(x, y, h) + 1]) THEN 1 ELSE 0]]

\* NewGraph with the diagonal option left on
NewGraphDiagonal(buf, pts, w, h) ==
    [size |-> w,
     diagonal |-> TRUE,
     weight |-> buf,
     point |-> [x \in 0 .. (w - 1) |-> [y \in 0 .. (h - 1) |->
                    IF y * w + x < Len(pts) THEN pts[y * w + x + 1] ELSE <<>>]]]

\* new Graph(this.buffer, { diagonal: false }) followed by the "Set points"
\* loops: one node per cell, its weight the cell's value
NewGraph(buf, pts, w, h) ==
    [size |-> w,
     diagonal |-> FALSE,
     weight |-> buf,
     point |-> [x \in 0 .. (w - 1) |-> [y \in 0 .. (h - 1) |->
                    PointAt(pts, AttachCoord(x, y, w))]]]

---------------------------------------------------------------------------
(* The path search: astar.search of javascript-astar over the Graph built  *)
(* by fill, with { heuristic: astar.heuristics.diagonal, closest: true }.  *)
(* A node is <<x, y>>.  The scores f, g and h are scaled by HScale so that *)
(* the heuristic d1 + d2 + (sqrt(2) - 2) * min(d1, d2) stays an integer;   *)
(* on the grids of the model two scaled scores compare exactly as the      *)
(* floating-point ones do.                                                 *)

HScale == 100000
Sqrt2Scaled == 141421

InGrid(g, n) == n[1] >= 0 /\ n[1] < g.size /\ n[2] >= 0 /\ n[2] < g.size

GridNodes(g) == (0 .. (g.size - 1)) \X (0 .. (g.size - 1))

\* GridNode.isWall
IsWall(g, n) == g.weight[n[1]][n[2]] = 0

\* GridNode.getCost(fromNeighbor): the weight, times 1.41421 for a diagonal move
GetCost(g, n, fromNeighbor) ==
    IF fromNeighbor[1] # n[1] /\ fromNeighbor[2] # n[2]
    THEN g.weight[n[1]][n[2]] * Sqrt2Scaled
    ELSE g.weight[n[1]][n[2]] * HScale

\* Graph.neighbors, in its order: west, east, south, north, and with the
\* diagonal option southwest, southeast, northwest, northeast
Neighbors(g, n) ==
    SelectSeq(<< <<n[1] - 1, n[2]>>, <<n[1] + 1, n[2]>>,
                 <<n[1], n[2] - 1>>, <<n[1], n[2] + 1>> >>
              \o (IF g.diagonal
                  THEN << <<n[1] - 1, n[2] - 1>>, <<n[1] + 1, n[2] - 1>>,
                          <<n[1] - 1, n[2] + 1>>, <<n[1] + 1, n[2] + 1>> >>
                  ELSE <<>>),
              LAMBDA m : InGrid(g, m))

\* astar.heuristics.diagonal
Diagonal(pos0, pos1) ==
    LET d1 == Abs(pos1[1] - pos0[1])
        d2 == Abs(pos1[2] - pos0[2])
    IN  HScale * (d1 + d2) + (Sqrt2Scaled - 2 * HScale) * MathMin(d1, d2)

\* the options without the closest fallback
SearchOptionsNoClosest == [heuristic |-> "diagonal", closest |-> FALSE]

\* the options fromTo hands to astar.search
SearchOptions == [heuristic |-> "diagonal", closest |-> TRUE]

\* astar.cleanNode
CleanNode == [f |-> 0, g |-> 0, h |-> 0, visited |-> FALSE, closed |-> FALSE,
              parent |-> Null]

\* pathTo that stops one node early and leaves out the node it was given
RECURSIVE PathToShort(_, _)
PathToShort(info, node) ==
    IF info[node].parent = Null THEN <<>>
    ELSE LET before == Get(info[node].parent)
         IN  IF info[before].parent = Null THEN <<>>
             ELSE Append(PathToShort(info, before), before)

\* pathTo: the nodes from the one after the start to node, following parents
RECURSIVE PathTo(_, _)
PathTo(info, node) ==
    IF info[node].parent = Null THEN <<>>
    ELSE Append(PathTo(info, Get(info[node].parent)), node)

\* BinaryHeap, scored by node.f; content is the heap's array, positions
\* counted from 1 (the parent of position p is p \div 2, its children are
\* 2p and 2p + 1)
Swap(content, p, q) == [content EXCEPT ![p] = content[q], ![q] = content[p]]

\* BinaryHeap.sinkDown
RECURSIVE SinkDown(_, _, _)
SinkDown(content, info, p) ==
    IF p > 1 /\ info[content[p]].f < info[content[p \div 2]].f
    THEN SinkDown(Swap(content, p, p \div 2), info, p \div 2)
    ELSE content

\* BinaryHeap.bubbleUp
RECURSIVE BubbleUp(_, _, _)
BubbleUp(content, info, p) ==
    LET length == Len(content)
        elemScore == info[content[p]].f
        child1 == 2 * p
        child2 == 2 * p + 1
        swap1 == IF child1 <= length /\ info[content[child1]].f < elemScore
                 THEN child1 ELSE 0
        swap2 == IF /\ child2 <= length
                    /\ info[content[child2]].f <
                         (IF swap1 = 0 THEN elemScore ELSE info[content[child1]].f)
                 THEN child2 ELSE swap1
    IN  IF swap2 # 0 THEN BubbleUp(Swap(content, p, swap2), info, swap2)
        ELSE content

\* BinaryHeap.push
HeapPush(content, info, n) == SinkDown(Append(content, n), info, Len(content) + 1)

\* BinaryHeap.pop: the content left once the first element is taken
HeapPop(content, info) ==
    IF Len(content) = 1 THEN <<>>
    ELSE BubbleUp([SubSeq(content, 1, Len(content) - 1) EXCEPT ![1] = content[Len(content)]],
                  info, 1)

\* BinaryHeap.rescoreElement
HeapRescore(content, info, n) ==
    SinkDown(content, info, CHOOSE p \in 1 .. Len(content) : content[p] = n)

\* the loop of astar.search over the neighbours of currentNode
RECURSIVE Relax(_, _, _, _, _)
Relax(st, g, cur, nbrs, end) ==
    IF nbrs = <<>> THEN st
    ELSE
      LET n == Head(nbrs)
          gScore == st.info[cur].g + GetCost(g, n, cur)
          beenVisited == st.info[n].visited
      IN
        IF st.info[n].closed \/ IsWall(g, n)
        THEN Relax(st, g, cur, Tail(nbrs), end)
        ELSE IF beenVisited /\ ~(gScore < st.info[n].g)
        THEN Relax(st, g, cur, Tail(nbrs), end)
        ELSE
          LET h == IF st.info[n].h # 0 THEN st.info[n].h ELSE Diagonal(n, end)
              info2 == [st.info EXCEPT ![n] =
                          [f |-> gScore + h, g |-> gScore, h |-> h,
                           visited |-> TRUE, closed |-> FALSE, parent |-> Some(cur)]]
              c == st.closest
              closer == \/ h < info2[c].h
                        \/ (h = info2[c].h /\ gScore < info2[c].g)
              st2 == [heap |-> IF beenVisited THEN HeapRescore(st.heap, info2, n)
                               ELSE HeapPush(st.heap, info2, n),
                      info |-> info2,
                      closest |-> IF closer THEN n ELSE c]
          IN  Relax(st2, g, cur, Tail(nbrs), end)

\* the while loop of astar.search
RECURSIVE SearchLoop(_, _, _)
SearchLoop(st, g, end) ==
    IF st.heap = <<>>
    THEN IF SearchOptions.closest THEN PathTo(st.info, st.closest) ELSE <<>>
    ELSE
      LET cur == st.heap[1]
      IN  IF cur = end THEN PathTo(st.info, cur)
          ELSE SearchLoop(
                 Relax([heap |-> HeapPop(st.heap, st.info),
                        info |-> [st.info EXCEPT ![cur].closed = TRUE],
                        closest |-> st.closest],
                       g, cur, Neighbors(g, cur), end),
                 g, end)

\* astar.search(graph, start, end, { heuristic: diagonal, closest: true })
AstarSearch(g, start, end) ==
    LET info0 == [n \in GridNodes(g) |->
                    IF n = start THEN [CleanNode EXCEPT !.h = Diagonal(start, end)]
                    ELSE CleanNode]
    IN  SearchLoop([heap |-> <<start>>, info |-> info0, closest |-> start], g, end)

---------------------------------------------------------------------------
(* fromTo *)

\* the first index whose point has the x and z of q, 0 when there is none
RECURSIVE FindIndex(_, _, _)
FindIndex(pts, q, i) ==
    IF i >= Len(pts) THEN 0
    ELSE IF /\ Present(pts[i + 1])
            /\ StrictEq(Get(pts[i + 1]).x, q.x)
            /\ StrictEq(Get(pts[i + 1]).z, q.z)
         THEN i
         ELSE FindIndex(pts, q, i + 1)

\* (fromIndex / width) >> 0 and (fromIndex % height) >> 0
StartNode(fromIndex, w, h) == <<DivTrunc(fromIndex, w), ModTrunc(fromIndex, h)>>

\* (toIndex / width) >> 0 and (toIndex % width) >> 0
EndNode(toIndex, w, h) == <<DivTrunc(toIndex, w), ModTrunc(toIndex, w)>>

\* Scalar.Lerp(start, end, amount)
Lerp(a, b, t) == Add(a, Mul(Sub(b, a), t))

\* the point fromTo emits for the path node of the given index
EmitPoint(pt, from, to, index, length) ==
    Vector3(pt.x, Lerp(from.y, to.y, DivInt(I(index), length)), pt.y)

\* forEach that emits the world origin for a node without a point
RECURSIVE ForEachAll(_, _, _, _, _)
ForEachAll(g, path, from, to, index) ==
    IF index >= Len(path) THEN <<>>
    ELSE LET n == path[index + 1]
             pt == g.point[n[1]][n[2]]
             rest == ForEachAll(g, path, from, to, index + 1)
         IN  IF Present(pt)
             THEN <<EmitPoint(Get(pt), from, to, index, Len(path))>> \o rest
             ELSE <<Vector3(I(0), I(0), I(0))>> \o rest

\* path.forEach((p, index) => ...): the nodes without a point are skipped
RECURSIVE ForEach(_, _, _, _, _)
ForEach(g, path, from, to, index) ==
    IF index >= Len(path) THEN <<>>
    ELSE LET n == path[index + 1]
             pt == g.point[n[1]][n[2]]
             rest == ForEach(g, path, from, to, index + 1)
         IN  IF Present(pt)
             THEN <<EmitPoint(Get(pt), from, to, index, Len(path))>> \o rest
             ELSE rest

\* reading this.graph.grid[x][y] and handing it to the search throws a
\* TypeError when there is no graph or no such node
NodeThrows(gr, n) == gr = Null \/ ~InGrid(Get(gr), n)

---------------------------------------------------------------------------
(* findNearestPoint *)

\* JavaScript's < on numbers: false as soon as one side is NaN
Lt(a, b) == ~IsNaN(a) /\ ~IsNaN(b) /\ a[1] * b[2] < b[1] * a[2]

\* Vector3.Distance(p, q) is the square root of this sum of squares; two
\* distances compare as their squares do
DistanceSquared(p, q) ==
    LET dx == Sub(p.x, q.x)
        dy == Sub(p.y, q.y)
        dz == Sub(p.z, q.z)
    IN  Add(Add(Mul(dx, dx), Mul(dy, dy)), Mul(dz, dz))

\* the loop of findNearestPoint with every present point taken as nearer
RECURSIVE NearestLast(_, _, _, _, _)
NearestLast(pts, point, i, lastDistance, nearest) ==
    IF i >= Len(pts) THEN nearest
    ELSE IF ~Present(pts[i + 1])
         THEN NearestLast(pts, point, i + 1, lastDistance, nearest)
         ELSE NearestLast(pts, point, i + 1,
                          Some(DistanceSquared(Get(pts[i + 1]), point)), Get(pts[i + 1]))

\* this.points.forEach(p => ...) of findNearestPoint from index i on:
\* lastDistance is Null for Number.MAX_VALUE, else the (squared) distance of
\* nearest
RECURSIVE Nearest(_, _, _, _, _)
Nearest(pts, point, i, lastDistance, nearest) ==
    IF i >= Len(pts) THEN nearest
    ELSE IF ~Present(pts[i + 1])
         THEN Nearest(pts, point, i + 1, lastDistance, nearest)
         ELSE LET d == DistanceSquared(Get(pts[i + 1]), point)
              IN  IF lastDistance = Null \/ Lt(d, Get(lastDistance))
                  THEN Nearest(pts, point, i + 1, Some(d), Get(pts[i + 1]))
                  ELSE Nearest(pts, point, i + 1, lastDistance, nearest)

---------------------------------------------------------------------------
(* Inputs *)

\* the sizes handed to the constructor and to rebuildBuffers: the integers
\* and the halves from -1 to MaxSize
Sizes == {Norm(k, 2) : k \in (0 - 2) .. (2 * MaxSize)}

\* a square ground around the world origin
Plane == Rect(0 - 3, 3, 0 - 3, 3, 0)
\* three grounds that leave the band -2 < x < 0 uncovered
West == Rect(0 - 3, 0 - 2, 0 - 3, 3, 0)
East == Rect(1, 3, 0 - 3, 3, 0)
Middle == Rect(0, 1, 0 - 3, 3, 0)
\* a bridge between West and East that covers part of the band
Bridge == Rect(0 - 1, 2, 0 - 1, 1, 0)
\* a ground on one side of the origin only
Strip == Rect(0 - 3, 3, 0 - 6, 0 - 2, 0)
\* a raised ground away from the origin
Corner == Rect(1, 3, 1, 3, 2)
\* a ledge above part of the plane
Ledge == Rect(0 - 3, 0 - 1, 0 - 3, 3, 4)
\* a surface without extent along x
Line == Rect(0, 0, 0 - 3, 3, 0)

PathMeshSets == {<<>>, <<Plane>>, <<West, East, Middle>>, <<West, East, Bridge>>, <<Strip>>}
FillMeshSets == PathMeshSets \cup {<<Corner>>, <<Plane, Ledge>>, <<Line>>, <<Corner, Strip>>}

NearestMeshSets == {<<>>, <<Plane>>, <<Strip>>, <<Plane, Ledge>>, <<Corner, Strip>>}

\* <<rayHeight, rayLength>> as handed to fill: omitted, zero, or a number
RayOverrides == {<<Null, Null>>, <<Some(0), Some(0)>>, <<Some(3), Null>>,
                 <<Null, Some(5)>>, <<Some(3), Some(5)>>}

QueryPoints ==
    {Vector3(I(0 - 3), I(0), I(0 - 3)), Vector3(I(1), I(2), I(1)),
     Vector3(I(0 - 3), I(2), I(1)), Vector3(I(1), I(0), I(0 - 3)),
     Vector3(I(0), I(1), I(0))}

---------------------------------------------------------------------------
(* WorkSpace: the watch programs.  processes is the sequence of the        *)
(* processes spawned so far, a process being named by its position; each   *)
(* records its kind, whether it is alive, and whether the call that        *)
(* spawned it was suspended while KillAllProcesses ran.  pending counts the *)
(* calls suspended at their await, per method and per that same mark.      *)

Calls == {"WatchProject", "WatchTypeScript"} \X BOOLEAN

PendingCount ==
    pending[<<"WatchProject", FALSE>>] + pending[<<"WatchProject", TRUE>>]
    + pending[<<"WatchTypeScript", FALSE>>] + pending[<<"WatchTypeScript", TRUE>>]

\* ExecTools.ExecAndGetProgram: a new process, alive
ExecAndGetProgram(call, overlapped) ==
    Append(processes, [call |-> call, alive |-> TRUE, overlapped |-> overlapped])

\* if (program) { program.process.kill(); }
Kill(procs, program) ==
    IF Present(program) THEN [procs EXCEPT ![Get(program)].alive = FALSE] ELSE procs

\* get IsWatchingProject
IsWatchingProject == WatchProjectProgram # Null

\* the static initialisers
WorkSpaceInit ==
    /\ WatchProjectProgram = Null
    /\ WatchTypescriptProgram = Null
    /\ processes = <<>>
    /\ pending = [c \in Calls |-> 0]

\* WatchProject up to its await: returns at once when a program is
\* referenced, else suspends on readJSON
WatchProject ==
    /\ IF Present(WatchProjectProgram) THEN UNCHANGED pending
       ELSE /\ Len(processes) + PendingCount < MaxProcesses
            /\ pending' = [pending EXCEPT ![<<"WatchProject", FALSE>>] = @ + 1]
    /\ UNCHANGED <<WatchProjectProgram, WatchTypescriptProgram, processes>>
    /\ UNCHANGED pathFinderVars

\* WatchProject after its await: readJSON resolved and the program is
\* spawned and stored, or it rejected (or package.json names no watch
\* script) and the call ends
WatchProjectResumed(overlapped, resolved) ==
    /\ pending[<<"WatchProject", overlapped>>] > 0
    /\ pending' = [pending EXCEPT ![<<"WatchProject", overlapped>>] = @ - 1]
    /\ IF resolved
       THEN /\ processes' = ExecAndGetProgram("WatchProject", overlapped)
            /\ WatchProjectProgram' = Some(Len(processes) + 1)
       ELSE UNCHANGED <<processes, WatchProjectProgram>>
    /\ UNCHANGED WatchTypescriptProgram
    /\ UNCHANGED pathFinderVars

StopWatchingProject ==
    /\ processes' = Kill(processes, WatchProjectProgram)
    /\ WatchProjectProgram' = Null
    /\ UNCHANGED <<WatchTypescriptProgram, pending>>
    /\ UNCHANGED pathFinderVars

\* WatchTypeScript up to its await on copyFile
WatchTypeScript ==
    /\ IF Present(WatchTypescriptProgram) THEN UNCHANGED pending
       ELSE /\ Len(processes) + PendingCount < MaxProcesses
            /\ pending' = [pending EXCEPT ![<<"WatchTypeScript", FALSE>>] = @ + 1]
    /\ UNCHANGED <<WatchProjectProgram, WatchTypescriptProgram, processes>>
    /\ UNCHANGED pathFinderVars

\* WatchTypeScript after its await
WatchTypeScriptResumed(overlapped, resolved) ==
    /\ pending[<<"WatchTypeScript", overlapped>>] > 0
    /\ pending' = [pending EXCEPT ![<<"WatchTypeScript", overlapped>>] = @ - 1]
    /\ IF resolved
       THEN /\ processes' = ExecAndGetProgram("WatchTypeScript", overlapped)
            /\ WatchTypescriptProgram' = Some(Len(processes) + 1)
       ELSE UNCHANGED <<processes, WatchTypescriptProgram>>
    /\ UNCHANGED WatchProjectProgram
    /\ UNCHANGED pathFinderVars

StopWatchingTypeScript ==
    /\ processes' = Kill(processes, WatchTypescriptProgram)
    /\ WatchTypescriptProgram' = Null
    /\ UNCHANGED <<WatchProjectProgram, pending>>
    /\ UNCHANGED pathFinderVars

\* StopWatchingProject(); StopWatchingTypeScript(); every call suspended at
\* this moment is marked as overlapped by it
KillAllProcesses ==
    /\ processes' = Kill(Kill(processes, WatchProjectProgram), WatchTypescriptProgram)
    /\ WatchProjectProgram' = Null
    /\ WatchTypescriptProgram' = Null
    /\ pending' = [c \in Calls |->
                     IF c[2] THEN pending[c] + pending[<<c[1], FALSE>>] ELSE 0]
    /\ UNCHANGED pathFinderVars

---------------------------------------------------------------------------
(* The PathFinder object.  ret records the last call: its arguments, whether *)
(* it threw, and what it returned.                                          *)

\* new PathFinder(size)
Init ==
    \E size \in Sizes :
        /\ width = ToInt32(size)
        /\ height = ToInt32(size)
        /\ buffer = IF ArrayThrows(ToInt32(size)) THEN <<>>
                    ELSE NewBuffer(ToInt32(size), ToInt32(size))
        /\ points = <<>>
        /\ graph = Null
        /\ boundingInfo = Null
        /\ ret = [op |-> "constructor", size |-> size,
                  threw |-> ArrayThrows(ToInt32(size))]
        /\ WorkSpaceInit

\* a constructor that threw leaves no object to call
Constructed == ~(ret.op = "constructor" /\ ret.threw)

RebuildBuffers(size) ==
    /\ Constructed
    /\ width' = ToInt32(size)
    /\ height' = ToInt32(size)
    /\ buffer' = IF ArrayThrows(width') THEN buffer ELSE NewBuffer(width', height')
    /\ points' = IF ArrayThrows(width') THEN points ELSE <<>>
    /\ ret' = [op |-> "rebuildBuffers", size |-> size, threw |-> ArrayThrows(width')]
    /\ UNCHANGED <<graph, boundingInfo>>
    /\ UNCHANGED workSpaceVars

Fill(castMeshes, rayHeight, rayLength) ==
    /\ Constructed
    /\ UNCHANGED workSpaceVars
    /\ LET b == CombinedBounds(castMeshes)
           pts == FillPoints(castMeshes, b, width, height, rayHeight, rayLength)
           buf == FillBuffer(pts, width, height)
       IN  IF ArrayThrows(width)
           THEN /\ UNCHANGED <<width, height, buffer, points, graph, boundingInfo>>
                /\ ret' = [op |-> "fill", threw |-> TRUE, castMeshes |-> castMeshes,
                           rayHeight |-> rayHeight, rayLength |-> rayLength]
           ELSE /\ UNCHANGED <<width, height>>
                /\ points' = pts
                /\ buffer' = buf
                /\ boundingInfo' = Some(b)
                /\ graph' = Some(NewGraph(buf, pts, width, height))
                /\ ret' = [op |-> "fill", threw |-> FALSE, castMeshes |-> castMeshes,
                           rayHeight |-> rayHeight, rayLength |-> rayLength]

FromTo(from, to) ==
    /\ Constructed
    /\ LET fromIndex == FindIndex(points, from, 0)
           toIndex == FindIndex(points, to, 0)
           start == StartNode(fromIndex, width, height)
           end == EndNode(toIndex, width, height)
       IN  IF NodeThrows(graph, start) \/ NodeThrows(graph, end)
           THEN ret' = [op |-> "fromTo", threw |-> TRUE, from |-> from, to |-> to]
           ELSE LET path == AstarSearch(Get(graph), start, end)
                IN  ret' = [op |-> "fromTo", threw |-> FALSE, from |-> from, to |-> to,
                            fromIndex |-> fromIndex, toIndex |-> toIndex,
                            start |-> start, end |-> end, path |-> path,
                            result |-> ForEach(Get(graph), path, from, to, 0)]
    /\ UNCHANGED <<width, height, buffer, points, graph, boundingInfo>>
    /\ UNCHANGED workSpaceVars

FindNearestPoint(point) ==
    /\ Constructed
    /\ ret' = [op |-> "findNearestPoint", point |-> point,
               result |-> Nearest(points, point, 0, Null, point)]
    /\ UNCHANGED <<width, height, buffer, points, graph, boundingInfo>>
    /\ UNCHANGED workSpaceVars

\* rasterisation alone, over every surface set and every ray override
NextFill ==
    \/ \E size \in Sizes : RebuildBuffers(size)
    \/ \E castMeshes \in FillMeshSets, ray \in RayOverrides :
          Fill(castMeshes, ray[1], ray[2])

SpecFill == Init /\ [][NextFill]_vars

\* rasterisation and nearest-point queries
NextNearest ==
    \/ \E size \in Sizes : RebuildBuffers(size)
    \/ \E castMeshes \in NearestMeshSets : Fill(castMeshes, Null, Null)
    \/ \E point \in QueryPoints : FindNearestPoint(point)

SpecNearest == Init /\ [][NextNearest]_vars

\* the watch programs of WorkSpace
NextWatch ==
    \/ WatchProject
    \/ \E overlapped \in BOOLEAN, resolved \in BOOLEAN :
          WatchProjectResumed(overlapped, resolved)
    \/ StopWatchingProject
    \/ WatchTypeScript
    \/ \E overlapped \in BOOLEAN, resolved \in BOOLEAN :
          WatchTypeScriptResumed(overlapped, resolved)
    \/ StopWatchingTypeScript
    \/ KillAllProcesses

SpecWatch == Init /\ [][NextWatch]_vars

\* rasterisation and path queries
Next ==
    \/ \E size \in Sizes : RebuildBuffers(size)
    \/ \E castMeshes \in PathMeshSets : Fill(castMeshes, Null, Null)
    \/ \E from \in QueryPoints, to \in QueryPoints : FromTo(from, to)

Spec == Init /\ [][Next]_vars

---------------------------------------------------------------------------
(* Claims *)

\* the last call was a fill that returned
Filled == ret.op = "fill" /\ ~ret.threw

\* the last call was a fromTo that returned
Answered == ret.op = "fromTo" /\ ~ret.threw

Cells == (0 .. (width - 1)) \X (0 .. (height - 1))

\* the hit of the ray the last fill cast for cell (x, y)
CellHit(x, y) ==
    CastCell(ret.castMeshes, Get(boundingInfo), x, y, width, height,
             ret.rayHeight, ret.rayLength)

\* C1: after fill, for every cell (x, y), buffer[x][y] = 1 exactly when
\* points[y * width + x] is present, that entry is the hit point of the ray
\* cast for cell (x, y), and graph node (x, y) carries a point exactly when
\* the cell is walkable.
C1_PointsFollowCells ==
    Filled =>
      \A c \in Cells :
        LET x == c[1]
            y == c[2]
            entry == PointAt(points, y * width + x)
        IN  /\ (buffer[x][y] = 1) <=> Present(entry)
            /\ Present(entry) => entry = CellHit(x, y)
            /\ Present(Get(graph).point[x][y]) <=> (buffer[x][y] = 1)

Manhattan(a, b) == Abs(a[1] - b[1]) + Abs(a[2] - b[2])

\* C2: the graph fill builds marks a cell impassable exactly when its ray
\* missed, and the node sequence found inside fromTo holds no impassable
\* cell and moves by one orthogonal step at a time.
C2_PathWalkableOrthogonal ==
    /\ Filled =>
         \A c \in Cells :
           Get(graph).weight[c[1]][c[2]] = (IF Present(CellHit(c[1], c[2])) THEN 1 ELSE 0)
    /\ Answered =>
         \A k \in 1 .. Len(ret.path) :
           /\ InGrid(Get(graph), ret.path[k])
           /\ Get(graph).weight[ret.path[k][1]][ret.path[k][2]] = 1
           /\ k > 1 => Manhattan(ret.path[k - 1], ret.path[k]) = 1

\* a query answered around an impassable cell: from (0, 0) to (2, 0) with
\* (1, 0) impassable, by four orthogonal steps
C2_Witness ==
    /\ Answered
    /\ ret.start = <<0, 0>> /\ ret.end = <<2, 0>>
    /\ Get(graph).size = 3
    /\ Get(graph).weight[1][0] = 0
    /\ Len(ret.path) = 4

\* the points of the path's nodes that carry one, in path order
RECURSIVE PresentPoints(_, _)
PresentPoints(g, path) ==
    IF path = <<>> THEN <<>>
    ELSE LET pt == g.point[Head(path)[1]][Head(path)[2]]
         IN  (IF Present(pt) THEN <<Get(pt)>> ELSE <<>>) \o PresentPoints(g, Tail(path))

\* C3: every point fromTo emits keeps the x and the z of the sampled point
\* of its path node; only y is replaced.
C3_HorizontalPositionKept ==
    Answered =>
      LET sampled == PresentPoints(Get(graph), ret.path)
      IN  /\ Len(ret.result) = Len(sampled)
          /\ \A k \in 1 .. Len(sampled) :
               /\ ret.result[k].x = sampled[k].x
               /\ ret.result[k].z = sampled[k].z

\* the nodes the search can reach from node set S: S and every passable node
\* joined to it by orthogonal steps over passable nodes
RECURSIVE ReachSet(_, _)
ReachSet(g, S) ==
    LET S2 == S \cup {m \in GridNodes(g) :
                        /\ g.weight[m[1]][m[2]] # 0
                        /\ \E n \in S : Manhattan(n, m) = 1}
    IN  IF S2 = S THEN S ELSE ReachSet(g, S2)

PathExists == ret.end \in ReachSet(Get(graph), {ret.start})

\* the node the search stopped at: the last of the sequence, the start when
\* the sequence is empty
LastNode == IF ret.path = <<>> THEN ret.start ELSE ret.path[Len(ret.path)]

\* C4 as stated, for a destination other than the start: when a path exists
\* the sequence runs from the start node to the destination node, both
\* included.
C4_StartToDestinationInclusive ==
    (Answered /\ PathExists /\ ret.start # ret.end) =>
      /\ ret.path # <<>>
      /\ ret.path[1] = ret.start
      /\ ret.path[Len(ret.path)] = ret.end

\* C4 amended: when a path exists the node sequence runs from the node that
\* follows the start node to the destination node; the start node is not
\* part of it, and it is empty when start and destination are one node.
C4_AfterStartToDestination ==
    (Answered /\ PathExists) =>
      IF ret.start = ret.end THEN ret.path = <<>>
      ELSE /\ ret.path # <<>>
           /\ Manhattan(ret.start, ret.path[1]) = 1
           /\ ret.path[Len(ret.path)] = ret.end
           /\ \A k \in 1 .. Len(ret.path) : ret.path[k] # ret.start

\* a destination three or more steps away was reached
C4_Witness ==
    /\ Answered /\ PathExists
    /\ Len(ret.path) >= 3
    /\ ret.path[Len(ret.path)] = ret.end

\* C5: with fromHeight <= toHeight the elevations of the emitted points never
\* decrease, the first one is fromHeight and the last one is toHeight.
C5_ElevationBetweenBounds ==
    (Answered /\ Le(ret.from.y, ret.to.y)) =>
      /\ \A k \in 2 .. Len(ret.result) : Le(ret.result[k - 1].y, ret.result[k].y)
      /\ ret.result # <<>> =>
           /\ ret.result[1].y = ret.from.y
           /\ ret.result[Len(ret.result)].y = ret.to.y

\* C6: once fill has run (there is a graph), on a grid of size >= 0, fromTo
\* returns a sequence of points and never raises.
C6_FromToNeverRaises ==
    (ret.op = "fromTo" /\ Present(graph) /\ width >= 0) => ~ret.threw

\* C7: the constructor and rebuildBuffers, given a size that is zero or
\* negative, do not throw and leave an empty buffer and an empty point array.
C7_NonPositiveSizeGivesEmpty ==
    (ret.op \in {"constructor", "rebuildBuffers"} /\ Le(ret.size, I(0))) =>
      /\ ~ret.threw
      /\ buffer = <<>>
      /\ points = <<>>

\* the last fill was given no surface, a grid of size zero, or surfaces whose
\* horizontal extent is degenerate
DegenerateFill ==
    /\ ret.op = "fill"
    /\ \/ ret.castMeshes = <<>>
       \/ width = 0
       \/ Xd(CombinedBounds(ret.castMeshes)) = 0
       \/ Yd(CombinedBounds(ret.castMeshes)) = 0

AllUnwalkable ==
    /\ \A c \in Cells : buffer[c[1]][c[2]] = 0
    /\ \A i \in 1 .. Len(points) : points[i] = Null

\* C8: fill with no surface, on a grid of size zero, or over a degenerate
\* extent does not crash and leaves every cell unwalkable, no point recorded.
C8_DegenerateFillAllUnwalkable ==
    DegenerateFill => (~ret.threw /\ AllUnwalkable)

\* C8 on a grid whose allocation did not fail (width >= 0)
C8_OnAllocatedGrid ==
    (DegenerateFill /\ width >= 0) => (~ret.threw /\ AllUnwalkable)

\* the graph is split in two by row k: every node of row k is impassable,
\* every other node is passable, and there are nodes on both sides
SplitByRow(g, k) ==
    /\ k > 0 /\ k < g.size - 1
    /\ \A n \in GridNodes(g) : (g.weight[n[1]][n[2]] = 0) <=> (n[1] = k)

\* the last query went from one side of row k to the other
AcrossRow(k) ==
    \/ ret.start[1] < k /\ k < ret.end[1]
    \/ ret.end[1] < k /\ k < ret.start[1]

SameSide(n, m, k) == (n[1] < k) <=> (m[1] < k)

\* C9 as stated: across a fully impassable row the query yields a path
\* that ends at a node next to the row and holds no node of the row or of
\* the far side.
C9_PathEndsNextToRow ==
    Answered =>
      \A k \in 0 .. (Get(graph).size - 1) :
        (SplitByRow(Get(graph), k) /\ AcrossRow(k)) =>
          /\ ret.path # <<>>
          /\ Abs(ret.path[Len(ret.path)][1] - k) = 1
          /\ \A i \in 1 .. Len(ret.path) :
               ret.path[i][1] # k /\ SameSide(ret.path[i], ret.start, k)

\* C9 amended: when the destination cannot be reached the search stops at
\* the reachable node closest to it, the start node included, and returns
\* the nodes after the start up to that node: an empty sequence when the
\* start itself is the closest.  Across a fully impassable row the node it
\* stops at is next to the row, and the sequence holds no node of the row
\* or of the far side.
C9_ClosestReachable ==
    Answered =>
      /\ ~PathExists =>
           /\ LastNode \in ReachSet(Get(graph), {ret.start})
           /\ \A m \in ReachSet(Get(graph), {ret.start}) :
                Diagonal(LastNode, ret.end) <= Diagonal(m, ret.end)
      /\ \A k \in 0 .. (Get(graph).size - 1) :
           (SplitByRow(Get(graph), k) /\ AcrossRow(k)) =>
             /\ ~PathExists
             /\ Abs(LastNode[1] - k) = 1
             /\ SameSide(LastNode, ret.start, k)
             /\ \A i \in 1 .. Len(ret.path) :
                  ret.path[i][1] # k /\ SameSide(ret.path[i], ret.start, k)

\* a query across an impassable row that moved towards the row's side
C9_Witness ==
    /\ Answered
    /\ \E k \in 0 .. (Get(graph).size - 1) :
         SplitByRow(Get(graph), k) /\ AcrossRow(k)
    /\ ret.path # <<>>
    /\ LastNode # ret.end

\* the least and the greatest of a non-empty sequence of integers
SeqMin(values) == CHOOSE v \in {values[k] : k \in 1 .. Len(values)} :
                      \A k \in 1 .. Len(values) : v <= values[k]
SeqMax(values) == CHOOSE v \in {values[k] : k \in 1 .. Len(values)} :
                      \A k \in 1 .. Len(values) : v >= values[k]

\* C10: over a non-empty surface set, the combined bounds are, per axis, the
\* least of the surfaces' minimums and the greatest of their maximums.
C10_CombinedBoundsAreMinMax ==
    (Filled /\ ret.castMeshes # <<>>) =>
      LET ms == ret.castMeshes
          n == Len(ms)
          b == Get(boundingInfo)
      IN  /\ b.minimum.x = SeqMin([k \in 1 .. n |-> ms[k].minX])
          /\ b.minimum.y = SeqMin([k \in 1 .. n |-> ms[k].y])
          /\ b.minimum.z = SeqMin([k \in 1 .. n |-> ms[k].minZ])
          /\ b.maximum.x = SeqMax([k \in 1 .. n |-> ms[k].maxX])
          /\ b.maximum.y = SeqMax([k \in 1 .. n |-> ms[k].y])
          /\ b.maximum.z = SeqMax([k \in 1 .. n |-> ms[k].maxZ])

\* the origin of the ray the last fill cast for cell (x, y)
CellRayOrigin(x, y) ==
    RayOrigin(Get(boundingInfo), x, y, width, height, ret.rayHeight)

\* C11: when fill is given a rayHeight (any number, 0 included) every ray
\* starts at exactly that height, and when it is given a rayLength (0
\* included) every ray has exactly that length (over a surface set that is
\* not empty).
C11_OverridesUsedExactly ==
    (Filled /\ ret.castMeshes # <<>>) =>
      \A c \in Cells :
        /\ Present(ret.rayHeight) =>
             CellRayOrigin(c[1], c[2]).y = I(Get(ret.rayHeight))
        /\ Present(ret.rayLength) =>
             RayLength(ret.rayLength) = Get(ret.rayLength)

\* the path nodes that carry a point, in path order
PresentNodes(g, path) == SelectSeq(path, LAMBDA n : Present(g.point[n[1]][n[2]]))

\* C12: fromTo emits one point per path node that carries a sampled point,
\* in path order, and nothing for a node without one: the output is as long
\* as the path has nodes with a point, and its k-th point has the x of the
\* point of the k-th such node.
C12_AbsentPointsSkipped ==
    Answered =>
      LET nodes == PresentNodes(Get(graph), ret.path)
      IN  /\ Len(ret.result) = Len(nodes)
          /\ \A k \in 1 .. Len(nodes) :
               ret.result[k].x = Get(Get(graph).point[nodes[k][1]][nodes[k][2]]).x

\* a path that holds a node without a point and a node with one
C12_Witness ==
    /\ Answered
    /\ ret.result # <<>>
    /\ Len(ret.result) < Len(ret.path)

\* the sampled points that are present
SampledPoints == {Get(points[i]) : i \in {j \in 1 .. Len(points) : Present(points[j])}}

\* C13: findNearestPoint returns a present sampled point at the least
\* distance from the query among the present sampled points, and the query
\* point itself when no sampled point is present.
C13_NearestPresentPoint ==
    (ret.op = "findNearestPoint") =>
      IF SampledPoints = {} THEN ret.result = ret.point
      ELSE /\ ret.result \in SampledPoints
           /\ \A q \in SampledPoints :
                Le(DistanceSquared(ret.result, ret.point), DistanceSquared(q, ret.point))

\* a query answered by a sampled point that is neither the first nor the
\* last present one, with an absent entry in the array
C13_Witness ==
    /\ ret.op = "findNearestPoint"
    /\ \E i \in 1 .. Len(points) : ~Present(points[i])
    /\ \E i, j, k \in 1 .. Len(points) :
         /\ i < j /\ j < k
         /\ Present(points[i]) /\ Present(points[k])
         /\ points[j] = Some(ret.result)
         /\ Get(points[i]) # ret.result /\ Get(points[k]) # ret.result

\* the last call allocated a grid of integer size n > 0
Allocated(n) ==
    /\ ret.op \in {"constructor", "rebuildBuffers"}
    /\ ret.size = I(n)
    /\ n > 0

\* C14: allocating a grid of size n > 0 gives width = height = n and an
\* n x n mask whose every cell is non-walkable (0, the value the graph takes
\* for a wall), leaves no sampled point of an earlier fill, and the point
\* array a fill produces has width * height entries.
C14_AllocationResets ==
    /\ \A n \in 1 .. (MaxSize + 1) :
         Allocated(n) =>
           /\ ~ret.threw
           /\ width = n /\ height = n
           /\ DOMAIN buffer = 0 .. (n - 1)
           /\ \A x \in 0 .. (n - 1) :
                /\ DOMAIN buffer[x] = 0 .. (n - 1)
                /\ \A y \in 0 .. (n - 1) : buffer[x][y] = 0
           /\ points = <<>>
    /\ Filled => Len(points) = width * height

\* C14 with the cells as the code leaves them: allocated rows hold no value,
\* neither 0 nor 1, until a fill writes them
C14_CellsLeftUnset ==
    /\ \A n \in 1 .. (MaxSize + 1) :
         Allocated(n) =>
           /\ ~ret.threw
           /\ width = n /\ height = n
           /\ \A x \in 0 .. (n - 1), y \in 0 .. (n - 1) : buffer[x][y] = Empty
           /\ points = <<>>
    /\ Filled => Len(points) = width * height

\* some sampled point has exactly the x and z of q
Matched(q) ==
    \E i \in 1 .. Len(points) :
      /\ Present(points[i])
      /\ StrictEq(Get(points[i]).x, q.x)
      /\ StrictEq(Get(points[i]).z, q.z)

\* the point attached to graph node n
NodePoint(n) == Get(graph).point[n[1]][n[2]]

\* C15: when from (to) has exactly the x and z of a sampled point, the
\* node fromTo starts from (searches for) is the node that carries the
\* matched point; when nothing matches it is node (0, 0), index 0.
C15_QueryNodeCarriesMatchedPoint ==
    Answered =>
      /\ IF Matched(ret.from)
         THEN NodePoint(ret.start) = points[ret.fromIndex + 1]
         ELSE ret.fromIndex = 0 /\ ret.start = <<0, 0>>
      /\ IF Matched(ret.to)
         THEN NodePoint(ret.end) = points[ret.toIndex + 1]
         ELSE ret.toIndex = 0 /\ ret.end = <<0, 0>>

\* the project-watch processes that are alive
LiveWatchProcesses ==
    {p \in 1 .. Len(processes) :
       processes[p].call = "WatchProject" /\ processes[p].alive}

\* C16: under any interleaving of WatchProject, StopWatchingProject and
\* KillAllProcesses, at most one project-watch process is alive, every live
\* one is the process WorkSpace references (so IsWatchingProject is true
\* exactly when one is alive), and once KillAllProcesses has run and the
\* calls it overlapped have completed, no process those calls spawned is
\* alive.
C16_OneReferencedWatchProcess ==
    /\ Cardinality(LiveWatchProcesses) <= 1
    /\ \A p \in LiveWatchProcesses : WatchProjectProgram = Some(p)
    /\ IsWatchingProject <=> (LiveWatchProcesses # {})
    /\ (pending[<<"WatchProject", TRUE>>] = 0) =>
         \A p \in LiveWatchProcesses : ~processes[p].overlapped

====
